---- MODULE Spec2Model ----
(***************************************************************************)
(* The inference-streaming client of mine.ai: resilientFetch (lib/network), *)
(* streamAIResponse (lib/api) and the handleSend orchestration of          *)
(* app/page.tsx, as one state machine.  Text is modelled with TLA+ strings; *)
(* JavaScript's 0-based indices become 1-based, and "not found" (-1) is 0.  *)
(***************************************************************************)
EXTENDS Integers, Sequences, FiniteSets, TLC

\* ------------------------------------------------------------------------
\* JavaScript string primitives used by the code
\* ------------------------------------------------------------------------

\* Characters String.prototype.trim removes (those that occur in the model).
Whitespace == {" ", "\n", "\r", "\t"}

CharAt(s, i) == SubSeq(s, i, i)

\* s.slice(from) with a 1-based index.
Slice(s, from) == IF from > Len(s) THEN "" ELSE SubSeq(s, from, Len(s))

StartsWith(s, p) == Len(s) >= Len(p) /\ SubSeq(s, 1, Len(p)) = p

EndsWith(s, p) == Len(s) >= Len(p) /\ SubSeq(s, Len(s) - Len(p) + 1, Len(s)) = p

\* s.indexOf(p): the first position of p in s, 0 when there is none.
IndexOf(s, p) ==
  LET hits == {i \in 1..(Len(s) - Len(p) + 1) : SubSeq(s, i, i + Len(p) - 1) = p}
  IN  IF hits = {} THEN 0 ELSE CHOOSE i \in hits : \A j \in hits : i <= j

Includes(s, p) == IndexOf(s, p) # 0

Trim(s) ==
  LET keep == {i \in 1..Len(s) : CharAt(s, i) \notin Whitespace}
  IN  IF keep = {} THEN ""
      ELSE SubSeq(s, CHOOSE i \in keep : \A j \in keep : i <= j,
                     CHOOSE i \in keep : \A j \in keep : i >= j)

\* s.split("\n"): the pieces between the newlines, the last one included.
RECURSIVE SplitLines(_)
SplitLines(s) ==
  LET i == IndexOf(s, "\n")
  IN  IF i = 0 THEN <<s>>
      ELSE <<SubSeq(s, 1, i - 1)>> \o SplitLines(Slice(s, i + 1))

\* ------------------------------------------------------------------------
\* separateThinkTags (page.tsx): inline reasoning markup in streamed content
\* ------------------------------------------------------------------------

OpenTag == "<think>"
CloseTag == "</think>"

\* content.replace(/<think>([\s\S]*?)<\/think>/g, ...): every closed span is
\* cut out of the content, left to right, its interior appended to thinking.
RECURSIVE ReplaceClosedSpans(_)
ReplaceClosedSpans(s) ==
  LET i == IndexOf(s, OpenTag)
      rest == Slice(s, i + Len(OpenTag))
      j == IndexOf(rest, CloseTag)
  IN  IF i = 0 \/ j = 0 THEN [content |-> s, thinking |-> ""]
      ELSE LET r == ReplaceClosedSpans(Slice(rest, j + Len(CloseTag)))
           IN  [content |-> SubSeq(s, 1, i - 1) \o r.content,
                thinking |-> SubSeq(rest, 1, j - 1) \o r.thinking]

separateThinkTags(raw) ==
  LET closed == ReplaceClosedSpans(raw)
      openIdx == IndexOf(closed.content, OpenTag)
      thinking == IF openIdx # 0
                  THEN closed.thinking \o Slice(closed.content, openIdx + Len(OpenTag))
                  ELSE closed.thinking
      content == IF openIdx # 0
                 THEN SubSeq(closed.content, 1, openIdx - 1)
                 ELSE closed.content
  IN  [content |-> Trim(content), thinking |-> Trim(thinking)]

\* ------------------------------------------------------------------------
\* NetworkError (lib/network): the classified error and its user message
\* ------------------------------------------------------------------------

NetworkErrorKind ==
  {"offline", "timeout", "unreachable", "http_error", "stream_abort", "unknown"}

Digit(d) == SubSeq("0123456789", d + 1, d + 1)

\* String(n) for a natural number.
RECURSIVE NumStr(_)
NumStr(n) == IF n < 10 THEN Digit(n) ELSE NumStr(n \div 10) \o Digit(n % 10)

\* NetworkError.toUserMessage; statusCode 0 stands for an undefined statusCode.
toUserMessage(kind, statusCode) ==
  CASE kind = "offline" -> "You're offline. Check your Wi-Fi or cellular connection."
    [] kind = "timeout" -> "Connection timed out. Is your AI server running?"
    [] kind = "unreachable" ->
         "Can't reach the server. Check the API URL and ensure Local Network access is allowed."
    [] kind = "http_error" ->
         IF statusCode = 404 THEN "Model endpoint not found. Check your API URL."
         ELSE "Server error (HTTP " \o (IF statusCode = 0 THEN "?" ELSE NumStr(statusCode))
              \o "). Try again."
    [] kind = "stream_abort" -> "Response was interrupted."
    [] OTHER -> "An unexpected network error occurred."

\* A JavaScript error value: cls is the class it is an instance of, kind is ""
\* (and statusCode 0) for an error that has no such property.
ErrorValue(cls, name, kind, message, statusCode, userMessage) ==
  [cls |-> cls, name |-> name, kind |-> kind, message |-> message,
   statusCode |-> statusCode, userMessage |-> userMessage]

\* new NetworkError(kind, message, statusCode)
NetworkError(kind, message, statusCode) ==
  ErrorValue("NetworkError", "NetworkError", kind, message, statusCode,
             toUserMessage(kind, statusCode))

NoError == ErrorValue("", "", "", "", 0, "")

\* What the platform throws: the rejection of an aborted fetch or read, a
\* transport failure of fetch, any other exception out of fetch, a body read
\* that fails on a dropped connection.
AbortError == ErrorValue("DOMException", "AbortError", "", "The operation was aborted.", 0, "")
FetchTypeError == ErrorValue("TypeError", "TypeError", "", "Failed to fetch", 0, "")
FetchOtherError == ErrorValue("Error", "Error", "", "Request failed", 0, "")
ReadTypeError == ErrorValue("TypeError", "TypeError", "", "network error", 0, "")

\* throw new Error("No response body reader available")
NoReaderError ==
  ErrorValue("Error", "Error", "", "No response body reader available", 0, "")

\* ------------------------------------------------------------------------
\* resilientFetch (lib/network)
\* ------------------------------------------------------------------------

\* Mutant: the connectivity check never reports the device offline.
isDeviceOfflineNever(onLine) == FALSE

\* isDeviceOffline(): !navigator.onLine.
isDeviceOffline(onLine) == ~onLine

\* Mutant: the timeout is left pending.
clearTimeoutSkipped(armed) == armed

\* clearTimeout(timeoutId): whether the timeout is still pending afterwards.
clearTimeout(armed) == FALSE

\* timeoutMs passed by streamAIResponse.
StreamTimeoutMs == 15000

\* The host of the request URL, for the "unreachable" message.
TargetHost == "localhost"

StatusText(status) ==
  CASE status = 200 -> "OK"
    [] status = 204 -> "No Content"
    [] status = 404 -> "Not Found"
    [] status = 500 -> "Internal Server Error"
    [] OTHER -> ""

\* response.ok
ResponseOk(status) == status \in 200..299

\* response.body is null for a null-body status.
HasBody(status) == status \notin {204, 205}

\* combineAbortSignals(a, b).aborted, on either path (AbortSignal.any or the
\* manual wiring): the combined signal is aborted when either source is.
combineAbortSignals(aAborted, bAborted) == aAborted \/ bAborted

\* Mutant: every aborted request is reported as a timeout, the caller's signal
\* is not consulted.
rfCatchAbortIsTimeout(error, callerSignalAborted, offline) ==
  IF error.cls = "NetworkError" THEN error
  ELSE IF error.cls = "DOMException" \/ error.name = "AbortError"
  THEN NetworkError("timeout",
         "Request timed out after " \o NumStr(StreamTimeoutMs) \o "ms", 0)
  ELSE IF error.cls = "TypeError"
  THEN IF offline
       THEN NetworkError("offline", "Device went offline during request", 0)
       ELSE NetworkError("unreachable",
              "Cannot reach " \o TargetHost \o ": " \o error.message, 0)
  ELSE NetworkError("unknown", error.message, 0)

\* Mutant: the catch block does not let a NetworkError through and
\* classifies it again.
rfCatchReclassifies(error, callerSignalAborted, offline) ==
  IF error.cls = "DOMException" \/ error.name = "AbortError"
  THEN IF callerSignalAborted
       THEN NetworkError("stream_abort", "Request aborted by user", 0)
       ELSE NetworkError("timeout",
              "Request timed out after " \o NumStr(StreamTimeoutMs) \o "ms", 0)
  ELSE IF error.cls = "TypeError"
  THEN IF offline
       THEN NetworkError("offline", "Device went offline during request", 0)
       ELSE NetworkError("unreachable",
              "Cannot reach " \o TargetHost \o ": " \o error.message, 0)
  ELSE NetworkError("unknown", error.message, 0)

\* The catch block of resilientFetch: error is what the try block threw,
\* callerSignalAborted is callerSignal?.aborted and offline is
\* isDeviceOffline(), both read when the catch runs.
rfCatch(error, callerSignalAborted, offline) ==
  IF error.cls = "NetworkError" THEN error
  ELSE IF error.cls = "DOMException" \/ error.name = "AbortError"
  THEN IF callerSignalAborted
       THEN NetworkError("stream_abort", "Request aborted by user", 0)
       ELSE NetworkError("timeout",
              "Request timed out after " \o NumStr(StreamTimeoutMs) \o "ms", 0)
  ELSE IF error.cls = "TypeError"
  THEN IF offline
       THEN NetworkError("offline", "Device went offline during request", 0)
       ELSE NetworkError("unreachable",
              "Cannot reach " \o TargetHost \o ": " \o error.message, 0)
  ELSE NetworkError("unknown", error.message, 0)

\* The try block of resilientFetch once fetch has resolved with a response of
\* this status: the http_error it throws passes through the catch block.
\* The result is [returned, status, error].
rfResponse(status, callerSignalAborted, offline) ==
  IF ~ResponseOk(status)
  THEN [returned |-> FALSE, status |-> status,
        error |-> rfCatch(NetworkError("http_error",
                            "HTTP " \o NumStr(status) \o ": " \o StatusText(status), status),
                          callerSignalAborted, offline)]
  ELSE [returned |-> TRUE, status |-> status, error |-> NoError]

\* resilientFetch rejecting because fetch rejected with this error.
rfRejected(error, callerSignalAborted, offline) ==
  [returned |-> FALSE, status |-> 0, error |-> rfCatch(error, callerSignalAborted, offline)]

rfNone == [returned |-> FALSE, status |-> 0, error |-> NoError]

\* ------------------------------------------------------------------------
\* The stream decoder of streamAIResponse (lib/api)
\* ------------------------------------------------------------------------

\* Bytes are characters of a string.  One two-byte UTF-8 character occurs in
\* the modelled streams: its lead byte is written "^", its continuation byte
\* "~" and the decoded character "@".  U+FFFD, which TextDecoder puts in
\* place of a malformed sequence, is written "?".
LeadByte == "^"
ContByte == "~"
TwoByteChar == "@"
ReplacementChar == "?"

\* The position of the first byte of a multi-byte sequence, 0 when the bytes
\* are all single-byte characters.
FirstMultiByte(bytes) ==
  LET hits == {i \in 1..Len(bytes) : CharAt(bytes, i) \in {LeadByte, ContByte}}
  IN  IF hits = {} THEN 0 ELSE CHOOSE i \in hits : \A j \in hits : i <= j

\* TextDecoder.decode(bytes, {stream: true}) on the bytes carried over from
\* the previous call followed by the new ones: [text, pending], pending being
\* the incomplete sequence held back for the next call.  Single-byte
\* characters decode to themselves, a lead byte with its continuation byte to
\* the two-byte character, a lead byte that ends the input is held back, and
\* any other lead or continuation byte becomes U+FFFD.
RECURSIVE Utf8Decode(_)
Utf8Decode(bytes) ==
  LET i == FirstMultiByte(bytes)
  IN  IF i = 0 THEN [text |-> bytes, pending |-> ""]
      ELSE LET before == SubSeq(bytes, 1, i - 1)
               complete == CharAt(bytes, i) = LeadByte /\ CharAt(bytes, i + 1) = ContByte
               r == Utf8Decode(Slice(bytes, IF complete THEN i + 2 ELSE i + 1))
           IN  IF CharAt(bytes, i) = LeadByte /\ i = Len(bytes)
               THEN [text |-> before, pending |-> LeadByte]
               ELSE [text |-> before
                              \o (IF complete THEN TwoByteChar ELSE ReplacementChar)
                              \o r.text,
                     pending |-> r.pending]

\* decoder.decode(value, { stream: true }) with the decoder's held bytes.
DecodeChunk(pending, value) == Utf8Decode(pending \o value)

\* A parsed stream object: the fields the decoder reads.  "" is an absent (or
\* empty) string field; isNull is the JSON value null, on which any property
\* access throws.
JsonObject(deltaContent, messageContent, response, deltaThinking, thinking, done) ==
  [ok |-> TRUE, isNull |-> FALSE, deltaContent |-> deltaContent,
   messageContent |-> messageContent, response |-> response,
   deltaThinking |-> deltaThinking, thinking |-> thinking, done |-> done]

JsonNull == [JsonObject("", "", "", "", "", FALSE) EXCEPT !.isNull = TRUE]

\* JSON.parse threw a SyntaxError.
JsonSyntaxError == [JsonObject("", "", "", "", "", FALSE) EXCEPT !.ok = FALSE]

\* The JSON texts of the modelled streams.
JDeltaThinkOpen == "{\"choices\":[{\"delta\":{\"content\":\"<think>\"}}]}"
JDeltaPlanAnswer == "{\"choices\":[{\"delta\":{\"content\":\"plan</think>answer\"}}]}"
JDeltaThinking == "{\"choices\":[{\"delta\":{\"thinking\":\"u\"}}]}"
JRespPartialTag == "{\"response\":\"<thi\"}"
JRespRestOfTag == "{\"response\":\"nk>p</think>a\"}"
JRespA == "{\"response\":\"a\"}"
JRespB == "{\"response\":\"b\"}"
JRespC == "{\"response\":\"c\"}"
JMessageHi == "{\"message\":{\"content\":\"H@\"}}"
JThinking == "{\"thinking\":\"t\"}"
JDone == "{\"done\":true}"
JDoneWithContent == "{\"message\":{\"content\":\"!\"},\"done\":true}"
JNull == "null"
JTruncated == "{\"respon"

\* JSON.parse on the texts that can reach it: every other text of the
\* modelled streams (JTruncated among them) is not valid JSON.
JSONParse(text) ==
  CASE text = JDeltaThinkOpen -> JsonObject("<think>", "", "", "", "", FALSE)
    [] text = JDeltaPlanAnswer -> JsonObject("plan</think>answer", "", "", "", "", FALSE)
    [] text = JDeltaThinking -> JsonObject("", "", "", "u", "", FALSE)
    [] text = JRespPartialTag -> JsonObject("", "", "<thi", "", "", FALSE)
    [] text = JRespRestOfTag -> JsonObject("", "", "nk>p</think>a", "", "", FALSE)
    [] text = JRespA -> JsonObject("", "", "a", "", "", FALSE)
    [] text = JRespB -> JsonObject("", "", "b", "", "", FALSE)
    [] text = JRespC -> JsonObject("", "", "c", "", "", FALSE)
    [] text = JMessageHi -> JsonObject("", "H@", "", "", "", FALSE)
    [] text = JThinking -> JsonObject("", "", "", "", "t", FALSE)
    [] text = JDone -> JsonObject("", "", "", "", "", TRUE)
    [] text = JDoneWithContent -> JsonObject("", "!", "", "", "", TRUE)
    [] text = JNull -> JsonNull
    [] OTHER -> JsonSyntaxError

SsePrefix == "data: "
SseDone == "data: [DONE]"

\* a || b on strings: the first one that is not empty.
Or(a, b) == IF a # "" THEN a ELSE b

\* A callback invocation made by streamAIResponse.
Call(cb, text) == [cb |-> cb, text |-> text]

\* The try block run on the object parsed from a line: the onChunk and
\* onThinking calls it makes, in order.  An exception inside it (a
\* SyntaxError of JSON.parse, a property read on null) is caught and logged.
CallsOfJson(json) ==
  IF ~json.ok \/ json.isNull THEN <<>>
  ELSE IF json.done THEN <<>>
  ELSE LET content == Or(json.deltaContent, Or(json.messageContent, Or(json.response, "")))
           thinking == Or(json.deltaThinking, json.thinking)
       IN  (IF content # "" THEN <<Call("onChunk", content)>> ELSE <<>>)
           \o (IF thinking # "" THEN <<Call("onThinking", thinking)>> ELSE <<>>)

\* The body of "for (const line of lines)".
CallsOfLine(line) ==
  LET trimmed == Trim(line)
  IN  IF trimmed = "" \/ trimmed = SseDone THEN <<>>
      ELSE IF StartsWith(trimmed, SsePrefix)
      THEN CallsOfJson(JSONParse(Slice(trimmed, Len(SsePrefix) + 1)))
      ELSE IF StartsWith(trimmed, "{")
      THEN CallsOfJson(JSONParse(trimmed))
      ELSE <<>>

\* The try block throws on this line (a SyntaxError, a property read on null).
LineThrows(line) ==
  LET trimmed == Trim(line)
  IN  /\ trimmed # "" /\ trimmed # SseDone
      /\ \/ /\ StartsWith(trimmed, SsePrefix)
            /\ LET json == JSONParse(Slice(trimmed, Len(SsePrefix) + 1))
               IN  ~json.ok \/ json.isNull
         \/ /\ ~StartsWith(trimmed, SsePrefix) /\ StartsWith(trimmed, "{")
            /\ LET json == JSONParse(trimmed) IN ~json.ok \/ json.isNull

\* Mutant: the try block encloses the for loop, so that a line that throws
\* ends the loop over the lines of its chunk.
RECURSIVE CallsOfLinesTryAroundLoop(_)
CallsOfLinesTryAroundLoop(lines) ==
  IF lines = <<>> \/ LineThrows(Head(lines)) THEN <<>>
  ELSE CallsOfLine(Head(lines)) \o CallsOfLinesTryAroundLoop(Tail(lines))

RECURSIVE CallsOfLines(_)
CallsOfLines(lines) ==
  IF lines = <<>> THEN <<>> ELSE CallsOfLine(Head(lines)) \o CallsOfLines(Tail(lines))

\* Mutant: the partial line is not kept for the next chunk.
SplitBufferDropsPartial(buffer, text) ==
  LET lines == SplitLines(buffer \o text)
  IN  [lines |-> SubSeq(lines, 1, Len(lines) - 1), buffer |-> ""]

\* buffer += text; lines = buffer.split("\n"); buffer = lines.pop() || "":
\* the complete lines and the partial line kept for the next chunk.
SplitBuffer(buffer, text) ==
  LET lines == SplitLines(buffer \o text)
  IN  [lines |-> SubSeq(lines, 1, Len(lines) - 1), buffer |-> lines[Len(lines)]]

\* One turn of the read loop on a chunk of bytes: [pending, buffer, calls].
ProcessChunk(pending, buffer, value) ==
  LET decoded == DecodeChunk(pending, value)
      split == SplitBuffer(buffer, decoded.text)
  IN  [pending |-> decoded.pending, buffer |-> split.buffer,
       calls |-> CallsOfLines(split.lines)]

\* The response bodies a server may send (the bytes of the whole stream).
SseScenarioStream ==
  SsePrefix \o JDeltaThinkOpen \o "\n" \o SsePrefix \o JDeltaPlanAnswer \o "\n"
  \o SseDone \o "\n"
SplitTagStream == JRespPartialTag \o "\n" \o JRespRestOfTag \o "\n"
MalformedLineStream ==
  JRespA \o "\n" \o JTruncated \o "\r\n\r\n" \o ": ping\n" \o SsePrefix \o JNull \o "\n"
  \o JRespB \o "\n" \o JRespC
NativeStream ==
  "{\"message\":{\"content\":\"H" \o LeadByte \o ContByte \o "\"}}\n"
  \o JThinking \o "\n" \o SsePrefix \o JDeltaThinking \o "\n" \o JDone \o "\n"
FinalContentStream == JRespA \o "\n" \o JDoneWithContent \o "\n"

Streams ==
  {SseScenarioStream, SplitTagStream, MalformedLineStream, NativeStream,
   FinalContentStream}

\* ------------------------------------------------------------------------
\* The callbacks handleSend passes to streamAIResponse (page.tsx)
\* ------------------------------------------------------------------------

\* The state handleSend's callbacks work on: the component state (isTyping,
\* modelStatus), the controller reference (TRUE while abortControllerRef.current
\* holds a controller), the two accumulators of the turn and the stored
\* assistant message (content, thinking; "" is an absent thinking field).
PageState(isTyping, ref, modelStatus, raw, accThinking, content, thinking) ==
  [isTyping |-> isTyping, abortControllerRef |-> ref, modelStatus |-> modelStatus,
   accumulatedRawContent |-> raw, accumulatedThinking |-> accThinking,
   content |-> content, thinking |-> thinking]

\* [accumulatedThinking, parsed.thinking].filter(Boolean).join('\n')
JoinNonEmpty(a, b) ==
  IF a = "" THEN b ELSE IF b = "" THEN a ELSE a \o "\n" \o b

onChunk(p, chunk) ==
  LET raw == p.accumulatedRawContent \o chunk
      parsed == separateThinkTags(raw)
      mergedThinking == JoinNonEmpty(p.accumulatedThinking, parsed.thinking)
  IN  [p EXCEPT !.accumulatedRawContent = raw,
                !.content = parsed.content,
                !.thinking = IF mergedThinking # "" THEN mergedThinking ELSE @]

onThinking(p, thinking, enabled) ==
  IF enabled
  THEN [p EXCEPT !.accumulatedThinking = @ \o thinking,
                 !.thinking = p.accumulatedThinking \o thinking]
  ELSE p

onComplete(p) == [p EXCEPT !.isTyping = FALSE, !.abortControllerRef = FALSE]

\* The text onError stores in the assistant message ("[x]" stands for the
\* cross-mark character of the source).
ErrorContent(error) ==
  "[x] " \o (IF error.cls = "NetworkError" THEN error.userMessage
             ELSE "Error: " \o error.message)
  \o "\n\nPlease check your API settings and connection."

onError(p, error) ==
  IF error.name = "AbortError"
  THEN [p EXCEPT !.isTyping = FALSE, !.abortControllerRef = FALSE]
  ELSE [p EXCEPT !.modelStatus = "offline", !.content = ErrorContent(error),
                 !.isTyping = FALSE]

\* The callbacks of a sequence of calls, applied in order.
RECURSIVE ApplyCalls(_, _, _)
ApplyCalls(p, cs, enabled) ==
  IF cs = <<>> THEN p
  ELSE ApplyCalls(IF Head(cs).cb = "onChunk" THEN onChunk(p, Head(cs).text)
                  ELSE onThinking(p, Head(cs).text, enabled),
                  Tail(cs), enabled)

\* ------------------------------------------------------------------------
\* State
\* ------------------------------------------------------------------------

\* The largest number of bytes one reader.read() delivers.
MaxChunk == 50

\* The statuses a server answers with.
Statuses == {200, 204, 404, 500}

VARIABLES
  pc,             \* where the turn is: "mounted", "preparing" (handleSend up to
                  \* its call of streamAIResponse), "profile" (awaiting the
                  \* profile read), "fetching" (awaiting fetch), "reading"
                  \* (awaiting reader.read()), "done"
  online,         \* navigator.onLine
  appActive,      \* the lifecycle registry's last recorded active state
  callerAborted,  \* abortController.signal.aborted
  timerArmed,     \* resilientFetch's timeout is pending
  timerFired,     \* timeoutController.signal.aborted
  fetchCount,     \* number of calls of fetch
  rfOutcome,      \* how resilientFetch ended: [returned, status, error]
  stream,         \* the bytes of the response body
  pos,            \* how many of them reader.read() has delivered
  buffer,         \* streamAIResponse's buffer
  pending,        \* bytes the TextDecoder holds back
  calls,          \* the callbacks streamAIResponse has invoked, in order
  handedError,    \* the error handed to onError
  page,           \* the PageState
  thinkingEnabled,\* settings.thinkingEnabled
  retestPending,  \* the connection test started on resume has not resolved
  endedBy,        \* history: the event that ended the call
  endedIn,        \* history: the value of pc when it did
  whole,          \* fragment harness: the content text of a turn
  fragments,      \* fragment harness: its fragments not yet handed to onChunk
  systemPrompt,   \* truncateToFit: its systemPrompt argument
  history,        \* truncateToFit: its history argument
  contextLength,  \* truncateToFit: its contextLength argument
  truncation,     \* truncateToFit: the TruncationResult, once it has returned
  platform,       \* lifecycle: what the host offers: [window, capacitor, onfreeze]
  docState,       \* lifecycle: the page is "visible", "hidden" or "frozen"
  listeners,      \* lifecycle.ts: the listeners array
  initialized,    \* lifecycle.ts: the initialized flag
  lastState,      \* lifecycle.ts: the last recorded active state
  importsPending, \* lifecycle: imports of @capacitor/app not yet settled
  attached,       \* lifecycle: the events a handler was added for, in order
  registrations,  \* lifecycle: the calls of onAppStateChange, in order, and
                  \* whether the handle each returned has been called
  lastSignal,     \* lifecycle: the last event handled and whom it invoked
  sendPc,         \* turns: where each invocation of handleSend is
  isTyping,       \* turns: the isTyping state of the page
  abortControllerRef, \* turns: the invocation whose controller is held, or 0
  urlPc,          \* resolver: "input", "resolved", "again" or "root"
  apiUrl,         \* resolver: the API URL of the settings
  chatUrl,        \* resolver: buildChatCompletionUrl(apiUrl)
  chatUrlAgain,   \* resolver: buildChatCompletionUrl(chatUrl)
  serverRoot      \* resolver: getBaseUrl(chatUrl)

truncVars == <<systemPrompt, history, contextLength, truncation>>
lifeVars == <<platform, docState, listeners, initialized, lastState, importsPending,
              attached, registrations, lastSignal>>
sendVars == <<sendPc, isTyping, abortControllerRef>>

\* The variables of one turn (handleSend, streamAIResponse, the fragment harness).
turnVars == <<pc, online, appActive, callerAborted, timerArmed, timerFired, fetchCount,
              rfOutcome, stream, pos, buffer, pending, calls, handedError, page,
              thinkingEnabled, retestPending, endedBy, endedIn, whole, fragments>>

urlVars == <<urlPc, apiUrl, chatUrl, chatUrlAgain, serverRoot>>

vars == <<turnVars, truncVars, lifeVars, sendVars, urlVars>>

thinkVars == <<whole, fragments>>
otherVars == <<truncVars, lifeVars, sendVars, urlVars>>
envVars == <<online, appActive, thinkingEnabled, thinkVars, otherVars>>

\* The most invocations of handleSend that are followed.
MaxSends == 3

\* truncateToFit has not returned.
NoTruncation == [returned |-> FALSE]

\* No event has been handled.
NoSignal == [event |-> "none", isActive |-> TRUE, wasActive |-> TRUE,
             registered |-> <<>>, invoked |-> <<>>]

\* No host has been chosen.
NoPlatform == [window |-> FALSE, capacitor |-> FALSE, onfreeze |-> FALSE]

\* truncateToFit not called, the module state of lifecycle.ts as it is
\* loaded, no handleSend invoked.
TruncIdle ==
  /\ systemPrompt = ""
  /\ history = <<>>
  /\ contextLength = 0
  /\ truncation = NoTruncation

LifeIdle ==
  /\ platform = NoPlatform
  /\ docState = "visible"
  /\ listeners = <<>>
  /\ initialized = FALSE
  /\ lastState = TRUE
  /\ importsPending = 0
  /\ attached = <<>>
  /\ registrations = <<>>
  /\ lastSignal = NoSignal

SendIdle ==
  /\ sendPc = [i \in 1..MaxSends |-> "idle"]
  /\ isTyping = FALSE
  /\ abortControllerRef = 0

\* No API URL has been resolved.
UrlIdle ==
  /\ urlPc = "input"
  /\ apiUrl = ""
  /\ chatUrl = ""
  /\ chatUrlAgain = ""
  /\ serverRoot = ""
readVars == <<stream, pos, buffer, pending>>

Init ==
  /\ pc = "mounted"
  /\ online \in BOOLEAN
  /\ appActive = TRUE
  /\ callerAborted = FALSE
  /\ timerArmed = FALSE
  /\ timerFired = FALSE
  /\ fetchCount = 0
  /\ rfOutcome = rfNone
  /\ stream = ""
  /\ pos = 0
  /\ buffer = ""
  /\ pending = ""
  /\ calls = <<>>
  /\ handedError = NoError
  /\ page = PageState(FALSE, FALSE, "unknown", "", "", "", "")
  /\ thinkingEnabled \in BOOLEAN
  /\ retestPending = FALSE
  /\ endedBy = "none"
  /\ endedIn = "none"
  /\ whole = ""
  /\ fragments = <<>>
  /\ TruncIdle
  /\ LifeIdle
  /\ SendIdle
  /\ UrlIdle

\* ------------------------------------------------------------------------
\* streamAIResponse ending
\* ------------------------------------------------------------------------

\* The catch block of streamAIResponse: the error goes to onError as it is,
\* whether it is a NetworkError or not.
streamCatch(error) == error

\* Mutant: the catch block swallows the error without calling onError.
ThrowSilently(error, p, by) ==
  /\ pc' = "done"
  /\ handedError' = streamCatch(error)
  /\ calls' = calls
  /\ page' = p
  /\ endedBy' = by
  /\ endedIn' = pc

\* streamAIResponse ends in its catch block with this error thrown; p is the
\* page state the handler running at that moment leaves.
Throw(error, p, by) ==
  /\ pc' = "done"
  /\ handedError' = streamCatch(error)
  /\ calls' = Append(calls, Call("onError", streamCatch(error).message))
  /\ page' = onError(p, streamCatch(error))
  /\ endedBy' = by
  /\ endedIn' = pc

\* ------------------------------------------------------------------------
\* handleSend and streamAIResponse up to the response
\* ------------------------------------------------------------------------

\* handleSend up to the system prompt construction: the guards, the user
\* message, setIsTyping(true), the empty assistant message and the two
\* accumulators of the turn.
HandleSend ==
  /\ pc = "mounted"
  /\ ~page.isTyping
  /\ pc' = "preparing"
  /\ page' = [page EXCEPT !.isTyping = TRUE, !.accumulatedRawContent = "",
                          !.accumulatedThinking = "", !.content = "", !.thinking = ""]
  /\ UNCHANGED <<envVars, readVars, callerAborted, timerArmed, timerFired, fetchCount,
                 rfOutcome, calls, handedError, retestPending, endedBy, endedIn>>

\* handleSend creating the controller and calling streamAIResponse, which
\* runs to its first await: the offline pre-check, then the profile read.
StartStream ==
  /\ pc = "preparing"
  /\ LET p == [page EXCEPT !.abortControllerRef = TRUE, !.modelStatus = "online"]
     IN  IF isDeviceOffline(online)
         THEN Throw(NetworkError("offline", "Device is offline", 0), p, "offline_check")
         ELSE /\ pc' = "profile"
              /\ page' = p
              /\ UNCHANGED <<calls, handedError, endedBy, endedIn>>
  /\ UNCHANGED <<envVars, readVars, callerAborted, timerArmed, timerFired, fetchCount,
                 rfOutcome, retestPending>>

\* The profile read resolves (or fails, which is caught and logged) and
\* streamAIResponse calls resilientFetch, which runs to its await of fetch:
\* the offline pre-check, the timer, the combined signal, the call of fetch.
\* fetch called with a signal that is already aborted rejects at once.
ProfileRead ==
  /\ pc = "profile"
  /\ IF isDeviceOffline(online)
     THEN LET error == NetworkError("offline", "Device is offline", 0)
          IN  /\ rfOutcome' = [returned |-> FALSE, status |-> 0, error |-> error]
              /\ Throw(error, page, "offline_check")
              /\ UNCHANGED <<timerArmed, fetchCount>>
     ELSE /\ fetchCount' = fetchCount + 1
          /\ IF combineAbortSignals(callerAborted, timerFired)
             THEN LET out == rfRejected(AbortError, callerAborted, isDeviceOffline(online))
                  IN  /\ rfOutcome' = out
                      /\ timerArmed' = clearTimeout(StreamTimeoutMs > 0)
                      /\ Throw(out.error, page, "caller_abort")
             ELSE /\ timerArmed' = (StreamTimeoutMs > 0)
                  /\ pc' = "fetching"
                  /\ UNCHANGED <<rfOutcome, calls, handedError, page, endedBy, endedIn>>
  /\ UNCHANGED <<envVars, readVars, callerAborted, timerFired, retestPending>>

\* fetch resolves with a response: resilientFetch clears its timer and
\* returns it or throws http_error; streamAIResponse takes the body reader.
FetchResolve(status, body) ==
  /\ pc = "fetching"
  /\ LET out == rfResponse(status, callerAborted, isDeviceOffline(online))
     IN  /\ rfOutcome' = out
         /\ timerArmed' = clearTimeout(timerArmed)
         /\ IF ~out.returned
            THEN Throw(out.error, page, "http_status") /\ UNCHANGED readVars
            ELSE IF ~HasBody(status)
            THEN Throw(NoReaderError, page, "no_body") /\ UNCHANGED readVars
            ELSE /\ pc' = "reading"
                 /\ stream' = body
                 /\ pos' = 0
                 /\ buffer' = ""
                 /\ pending' = ""
                 /\ UNCHANGED <<calls, handedError, page, endedBy, endedIn>>
  /\ UNCHANGED <<envVars, callerAborted, timerFired, fetchCount, retestPending>>

\* fetch rejects on its own: a transport failure or another exception.
FetchFail(error) ==
  /\ pc = "fetching"
  /\ LET out == rfRejected(error, callerAborted, isDeviceOffline(online))
     IN  /\ rfOutcome' = out
         /\ timerArmed' = clearTimeout(timerArmed)
         /\ Throw(out.error, page, "fetch_failure")
  /\ UNCHANGED <<envVars, readVars, callerAborted, timerFired, fetchCount, retestPending>>

\* The timeout callback: timeoutController.abort(), which aborts the
\* combined signal and with it the fetch (or the body) that carries it.
TimerFire ==
  /\ timerArmed
  /\ timerFired' = TRUE
  /\ IF pc = "fetching"
     THEN LET out == rfRejected(AbortError, callerAborted, isDeviceOffline(online))
          IN  /\ rfOutcome' = out
              /\ timerArmed' = clearTimeout(FALSE)
              /\ Throw(out.error, page, "timer")
     ELSE IF pc = "reading"
     THEN /\ timerArmed' = FALSE
          /\ Throw(AbortError, page, "timer")
          /\ UNCHANGED rfOutcome
     ELSE /\ timerArmed' = FALSE
          /\ UNCHANGED <<pc, rfOutcome, calls, handedError, page, endedBy, endedIn>>
  /\ UNCHANGED <<envVars, readVars, callerAborted, fetchCount, retestPending>>

\* ------------------------------------------------------------------------
\* The read loop
\* ------------------------------------------------------------------------

\* reader.read() resolves with the next n bytes; the lines they complete
\* are parsed and their fragments handed to onChunk and onThinking.
ChunkArrive(n) ==
  /\ pc = "reading"
  /\ pos + n <= Len(stream)
  /\ LET r == ProcessChunk(pending, buffer, SubSeq(stream, pos + 1, pos + n))
     IN  /\ pending' = r.pending
         /\ buffer' = r.buffer
         /\ calls' = calls \o r.calls
         /\ page' = ApplyCalls(page, r.calls, thinkingEnabled)
  /\ pos' = pos + n
  /\ UNCHANGED <<envVars, pc, stream, callerAborted, timerArmed, timerFired, fetchCount,
                 rfOutcome, handedError, retestPending, endedBy, endedIn>>

\* Mutant: the text left in the buffer is parsed as a last line before
\* onComplete.
EndOfStreamFlushes ==
  /\ pc = "reading"
  /\ pos = Len(stream)
  /\ pc' = "done"
  /\ calls' = calls \o CallsOfLine(buffer) \o <<Call("onComplete", "")>>
  /\ page' = onComplete(ApplyCalls(page, CallsOfLine(buffer), thinkingEnabled))
  /\ endedBy' = "end_of_stream"
  /\ endedIn' = pc
  /\ UNCHANGED <<envVars, readVars, callerAborted, timerArmed, timerFired, fetchCount,
                 rfOutcome, handedError, retestPending>>

\* reader.read() resolves with done: the loop breaks and onComplete runs.
EndOfStream ==
  /\ pc = "reading"
  /\ pos = Len(stream)
  /\ pc' = "done"
  /\ calls' = Append(calls, Call("onComplete", ""))
  /\ page' = onComplete(page)
  /\ endedBy' = "end_of_stream"
  /\ endedIn' = pc
  /\ UNCHANGED <<envVars, readVars, callerAborted, timerArmed, timerFired, fetchCount,
                 rfOutcome, handedError, retestPending>>

\* reader.read() rejects because the connection dropped.
ReadFail ==
  /\ pc = "reading"
  /\ Throw(ReadTypeError, page, "read_failure")
  /\ UNCHANGED <<envVars, readVars, callerAborted, timerArmed, timerFired, fetchCount,
                 rfOutcome, retestPending>>

\* ------------------------------------------------------------------------
\* Cancellation: handleStop and the resume handler (page.tsx)
\* ------------------------------------------------------------------------

\* Mutant: the handler drops the controller without aborting it.
AbortSkipped(p) ==
  /\ page' = p
  /\ UNCHANGED <<callerAborted, pc, rfOutcome, timerArmed, calls, handedError, endedBy,
                 endedIn>>

\* abortControllerRef.current.abort() and what the abort makes the call in
\* flight do before the next event: a pending fetch rejects into the catch
\* block of resilientFetch, a pending read rejects into that of
\* streamAIResponse.  p is the page state the handler itself leaves.
Abort(p) ==
  /\ callerAborted' = TRUE
  /\ IF pc = "fetching"
     THEN LET out == rfRejected(AbortError, TRUE, isDeviceOffline(online))
          IN  /\ rfOutcome' = out
              /\ timerArmed' = clearTimeout(timerArmed)
              /\ Throw(out.error, p, "caller_abort")
     ELSE IF pc = "reading"
     THEN /\ Throw(AbortError, p, "caller_abort")
          /\ UNCHANGED <<rfOutcome, timerArmed>>
     ELSE /\ page' = p
          /\ UNCHANGED <<pc, rfOutcome, timerArmed, calls, handedError, endedBy, endedIn>>

HandleStop ==
  /\ page.abortControllerRef
  /\ Abort([page EXCEPT !.abortControllerRef = FALSE, !.isTyping = FALSE])
  /\ UNCHANGED <<envVars, readVars, timerFired, fetchCount, retestPending>>

\* The application goes to the background: the callback of page.tsx does
\* nothing for isActive = false.
AppBackground ==
  /\ appActive
  /\ appActive' = FALSE
  /\ UNCHANGED <<pc, online, thinkingEnabled, thinkVars, otherVars, readVars, callerAborted, timerArmed,
                 timerFired, fetchCount, rfOutcome, calls, handedError, page,
                 retestPending, endedBy, endedIn>>

\* The application resumes: a held controller is aborted and dropped, the
\* typing flag cleared and the connection test started.
AppResume ==
  /\ ~appActive
  /\ appActive' = TRUE
  /\ IF page.abortControllerRef
     THEN /\ Abort([page EXCEPT !.abortControllerRef = FALSE, !.isTyping = FALSE])
          /\ retestPending' = TRUE
     ELSE UNCHANGED <<pc, callerAborted, rfOutcome, timerArmed, calls, handedError,
                      page, retestPending, endedBy, endedIn>>
  /\ UNCHANGED <<online, thinkingEnabled, thinkVars, otherVars, readVars, timerFired,
                 fetchCount>>

\* The connection test started on resume resolves.
RetestResult(success) ==
  /\ retestPending
  /\ retestPending' = FALSE
  /\ page' = [page EXCEPT !.modelStatus = IF success THEN "online" ELSE "offline"]
  /\ UNCHANGED <<envVars, pc, readVars, callerAborted, timerArmed, timerFired, fetchCount,
                 rfOutcome, calls, handedError, endedBy, endedIn>>

\* The device gains or loses connectivity.
SetOnline(b) ==
  /\ online # b
  /\ online' = b
  /\ UNCHANGED <<pc, appActive, thinkingEnabled, thinkVars, otherVars, readVars, callerAborted, timerArmed,
                 timerFired, fetchCount, rfOutcome, calls, handedError, page,
                 retestPending, endedBy, endedIn>>

Next ==
  \/ HandleSend
  \/ StartStream
  \/ ProfileRead
  \/ \E status \in Statuses, body \in Streams : FetchResolve(status, body)
  \/ \E error \in {FetchTypeError, FetchOtherError} : FetchFail(error)
  \/ TimerFire
  \/ \E n \in 1..MaxChunk : ChunkArrive(n)
  \/ EndOfStream
  \/ ReadFail
  \/ HandleStop
  \/ AppBackground
  \/ AppResume
  \/ \E success \in BOOLEAN : RetestResult(success)
  \/ \E b \in BOOLEAN : SetOnline(b)

Spec == Init /\ [][Next]_vars

\* ------------------------------------------------------------------------
\* Properties of the transport
\* ------------------------------------------------------------------------

\* C1: a resilientFetch that is waiting for the response and ends there
\* rejects with stream_abort when the caller's signal is aborted and the
\* timer has not fired, and with timeout when the timer fired and the
\* caller's signal is not aborted; timeout is never the report of a caller
\* abort, stream_abort never that of a timeout alone.
C1_AbortAndTimeoutDistinguished ==
  [][(pc = "fetching" /\ pc' = "done") =>
       /\ (callerAborted' /\ ~timerFired') =>
            (~rfOutcome'.returned /\ rfOutcome'.error.kind = "stream_abort")
       /\ (timerFired' /\ ~callerAborted') =>
            (~rfOutcome'.returned /\ rfOutcome'.error.kind = "timeout")
       /\ rfOutcome'.error.kind = "timeout" => (timerFired' /\ ~callerAborted')
       /\ rfOutcome'.error.kind = "stream_abort" => callerAborted']_vars

C1_Witness ==
  /\ endedIn = "fetching"
  /\ endedBy = "caller_abort"
  /\ ~timerFired
  /\ rfOutcome.error.kind = "stream_abort"

\* C2: when the caller's signal fires while a chunk read is pending, the
\* call ends and onError receives a classified error of kind stream_abort.
C2_ReadAbortIsStreamAbort ==
  (endedIn = "reading" /\ endedBy = "caller_abort") =>
    /\ pc = "done"
    /\ handedError.cls = "NetworkError"
    /\ handedError.kind = "stream_abort"

\* resilientFetch has handed the response to its caller.
ResponseReceived == rfOutcome.returned

\* C3 as stated: once the response is received, only end-of-stream or the
\* caller's cancellation signal ends the stream.
C3_OnlyEndOrCancelEnds ==
  (ResponseReceived /\ pc = "done") => endedBy \in {"end_of_stream", "caller_abort"}

\* C3 as amended: once the response is received the timeout is disarmed and
\* never fires, so the call never ends by the timeout nor with kind timeout;
\* what ends it is end-of-stream, the caller's cancellation signal, a missing
\* body reader or a read that fails.
C3_TimeoutDisarmedAfterResponse ==
  ResponseReceived =>
    /\ ~timerArmed
    /\ ~timerFired
    /\ pc \in {"reading", "done"}
    /\ pc = "done" =>
         /\ endedBy \in {"end_of_stream", "caller_abort", "no_body", "read_failure"}
         /\ handedError.kind # "timeout"

C3_Witness ==
  /\ ResponseReceived
  /\ pos = Len(stream)
  /\ Len(calls) > 2
  /\ endedBy = "end_of_stream"

\* C4: a streamAIResponse or resilientFetch called while the device reports
\* no connectivity ends the call with kind offline and calls fetch not once.
C4_OfflineFailsWithoutFetch ==
  [][(~online /\ \/ (pc = "preparing" /\ pc' # "preparing")
                 \/ (pc = "profile" /\ pc' # "profile")) =>
       /\ pc' = "done"
       /\ handedError'.kind = "offline"
       /\ fetchCount' = 0]_vars

C4_Witness ==
  /\ endedBy = "offline_check"
  /\ endedIn = "profile"
  /\ handedError.kind = "offline"
  /\ fetchCount = 0

\* C5: every error handed to onError is a classified error whose kind is one
\* of the six, and an unexpected exception (a missing body reader, a read
\* that fails) arrives as kind unknown with its message.
C5_EveryErrorClassified ==
  handedError # NoError =>
    /\ handedError.cls = "NetworkError"
    /\ handedError.kind \in NetworkErrorKind
    /\ endedBy = "no_body" =>
         (handedError.kind = "unknown" /\ handedError.message = NoReaderError.message)
    /\ endedBy = "read_failure" =>
         (handedError.kind = "unknown" /\ handedError.message = ReadTypeError.message)

\* C6: resilientFetch returns no response whose status is not 2xx; for such
\* a response it rejects with the http_error it built, statusCode being the
\* response status, and the catch block leaves that error as it is.
C6_Non2xxIsHttpError ==
  /\ rfOutcome.returned => rfOutcome.status \in 200..299
  /\ (rfOutcome.status # 0 /\ rfOutcome.status \notin 200..299) =>
       /\ ~rfOutcome.returned
       /\ rfOutcome.error =
            NetworkError("http_error",
              "HTTP " \o NumStr(rfOutcome.status) \o ": " \o StatusText(rfOutcome.status),
              rfOutcome.status)
       /\ rfOutcome.error.statusCode = rfOutcome.status
       /\ handedError = rfOutcome.error

C6_Witness ==
  /\ rfOutcome.status = 404
  /\ handedError.kind = "http_error"
  /\ handedError.statusCode = 404

\* ------------------------------------------------------------------------
\* Properties of the decoder
\* ------------------------------------------------------------------------

\* A non-empty proper prefix of the tag ends the text.
EndsWithPartial(text, tag) ==
  \E k \in 1..(Len(tag) - 1) : EndsWith(text, SubSeq(tag, 1, k))

\* C7: while a stream is read (and after it ended without an error), the
\* content stored for the assistant message holds no <think> tag, no
\* </think> tag and does not end with the beginning of one.
C7_NoReasoningMarkupInContent ==
  (pc \in {"reading", "done"} /\ handedError = NoError) =>
    /\ ~Includes(page.content, OpenTag)
    /\ ~Includes(page.content, CloseTag)
    /\ ~EndsWithPartial(page.content, OpenTag)
    /\ ~EndsWithPartial(page.content, CloseTag)

\* The fragment harness: one content text, cut at two places into at most
\* three fragments, handed to onChunk one by one.
ThinkTexts == {"<think>plan</think>answer", "a<think> </think>b", "<think></think>a"}

NonEmpty(seq) == SelectSeq(seq, LAMBDA f : f # "")

\* The page state when the first fragment of a turn arrives.
TurnStart == PageState(TRUE, TRUE, "online", "", "", "", "")

ThinkInit ==
  /\ whole \in ThinkTexts
  /\ \E i, j \in 0..Len(whole) :
       /\ i <= j
       /\ fragments = NonEmpty(<<SubSeq(whole, 1, i), SubSeq(whole, i + 1, j),
                                 SubSeq(whole, j + 1, Len(whole))>>)
  /\ pc = "reading"
  /\ online = TRUE
  /\ appActive = TRUE
  /\ callerAborted = FALSE
  /\ timerArmed = FALSE
  /\ timerFired = FALSE
  /\ fetchCount = 1
  /\ rfOutcome = rfResponse(200, FALSE, FALSE)
  /\ stream = ""
  /\ pos = 0
  /\ buffer = ""
  /\ pending = ""
  /\ calls = <<>>
  /\ handedError = NoError
  /\ page = TurnStart
  /\ thinkingEnabled = TRUE
  /\ retestPending = FALSE
  /\ endedBy = "none"
  /\ endedIn = "none"
  /\ TruncIdle
  /\ LifeIdle
  /\ SendIdle
  /\ UrlIdle

\* streamAIResponse hands the next fragment to onChunk.
FeedFragment ==
  /\ fragments # <<>>
  /\ page' = onChunk(page, Head(fragments))
  /\ calls' = Append(calls, Call("onChunk", Head(fragments)))
  /\ fragments' = Tail(fragments)
  /\ UNCHANGED <<pc, online, appActive, callerAborted, timerArmed, timerFired, fetchCount,
                 rfOutcome, stream, pos, buffer, pending, handedError, thinkingEnabled,
                 retestPending, endedBy, endedIn, whole, otherVars>>

SpecThink == ThinkInit /\ [][FeedFragment]_vars

\* C8: content with a <think>...</think> span ends with the same stored
\* content and the same stored reasoning whether it arrives as one fragment
\* or cut at any two places; '<think>plan</think>answer' ends with content
\* 'answer' and reasoning 'plan'.
C8_SplitGivesSameResult ==
  (whole # "" /\ fragments = <<>>) =>
    /\ page.content = onChunk(TurnStart, whole).content
    /\ page.thinking = onChunk(TurnStart, whole).thinking
    /\ whole = "<think>plan</think>answer" =>
         (page.content = "answer" /\ page.thinking = "plan")

\* The onChunk and onThinking calls among the calls made.
Fragments(cs) == SelectSeq(cs, LAMBDA c : c.cb \in {"onChunk", "onThinking"})

\* The newline-terminated lines of these bytes.
CompleteLines(bytes) ==
  LET lines == SplitLines(Utf8Decode(bytes).text)
  IN  SubSeq(lines, 1, Len(lines) - 1)

\* The fragments of each line, line after line.
RECURSIVE InLineOrder(_)
InLineOrder(lines) ==
  IF lines = <<>> THEN <<>> ELSE CallsOfLine(Head(lines)) \o InLineOrder(Tail(lines))

\* C9: whatever the network chunks were, the onChunk and onThinking calls
\* made for the bytes read so far are those made when the same bytes arrive
\* as one chunk, and they are the fragments of the complete lines of those
\* bytes in the order of the lines.
C9_ChunkingDoesNotMatter ==
  ResponseReceived =>
    /\ Fragments(calls) = ProcessChunk("", "", SubSeq(stream, 1, pos)).calls
    /\ Fragments(calls) = InLineOrder(CompleteLines(SubSeq(stream, 1, pos)))

C9_Witness ==
  /\ ResponseReceived
  /\ pos < Len(stream)
  /\ buffer # ""
  /\ Len(Fragments(calls)) >= 2

\* The line is not valid JSON where JSON is expected.
Malformed(line) ==
  LET trimmed == Trim(line)
  IN  /\ trimmed # "" /\ trimmed # SseDone
      /\ \/ StartsWith(trimmed, SsePrefix)
            /\ ~JSONParse(Slice(trimmed, Len(SsePrefix) + 1)).ok
         \/ ~StartsWith(trimmed, SsePrefix) /\ StartsWith(trimmed, "{")
            /\ ~JSONParse(trimmed).ok

\* The fragments of the lines that are not malformed, in order.
RECURSIVE WellFormedFragments(_)
WellFormedFragments(lines) ==
  IF lines = <<>> THEN <<>>
  ELSE (IF Malformed(Head(lines)) THEN <<>> ELSE CallsOfLine(Head(lines)))
       \o WellFormedFragments(Tail(lines))

\* C10: when the stream has been read to its end, the calls made are the
\* fragments of every line that is not malformed, in order, followed by
\* onComplete; a malformed line adds nothing and causes no onError.
C10_MalformedLineSkipped ==
  endedBy = "end_of_stream" =>
    /\ calls = WellFormedFragments(CompleteLines(stream)) \o <<Call("onComplete", "")>>
    /\ handedError = NoError

C10_Witness ==
  /\ endedBy = "end_of_stream"
  /\ \E k \in 1..Len(CompleteLines(stream)) : Malformed(CompleteLines(stream)[k])
  /\ calls = <<Call("onChunk", "a"), Call("onChunk", "b"), Call("onComplete", "")>>

\* The object the decoder parses from a line; JsonSyntaxError where it
\* parses nothing.
ParsedObject(line) ==
  LET trimmed == Trim(line)
  IN  IF trimmed = "" \/ trimmed = SseDone THEN JsonSyntaxError
      ELSE IF StartsWith(trimmed, SsePrefix)
      THEN JSONParse(Slice(trimmed, Len(SsePrefix) + 1))
      ELSE IF StartsWith(trimmed, "{") THEN JSONParse(trimmed)
      ELSE JsonSyntaxError

\* The first non-empty of the delta content, the message content and the
\* response field.
FirstContent(json) == Or(json.deltaContent, Or(json.messageContent, json.response))

\* One onChunk call for every parsed object that has a non-empty content.
RECURSIVE ChunkPerContent(_)
ChunkPerContent(lines) ==
  IF lines = <<>> THEN <<>>
  ELSE LET json == ParsedObject(Head(lines))
       IN  (IF json.ok /\ ~json.isNull /\ FirstContent(json) # ""
            THEN <<Call("onChunk", FirstContent(json))>> ELSE <<>>)
           \o ChunkPerContent(Tail(lines))

\* C24: the onChunk calls made for the bytes read so far are one call for
\* every parsed object that has a non-empty content, with the first
\* non-empty of its delta content, message content and response field; an
\* object with done = true that carries a content is not skipped.
C24_EveryContentYieldsOnChunk ==
  ResponseReceived =>
    SelectSeq(calls, LAMBDA c : c.cb = "onChunk")
      = ChunkPerContent(CompleteLines(SubSeq(stream, 1, pos)))

\* The text after the last newline of these bytes.
TrailingText(bytes) ==
  LET lines == SplitLines(Utf8Decode(bytes).text) IN lines[Len(lines)]

\* C28: when the stream has been read to its end, the text after its last
\* newline is still in the buffer, unparsed: the fragments handed are those
\* of the newline-terminated lines and no more, and the last call is
\* onComplete, made once.
C28_TrailingTextDiscarded ==
  endedBy = "end_of_stream" =>
    /\ buffer = TrailingText(stream)
    /\ Fragments(calls) = InLineOrder(CompleteLines(stream))
    /\ calls[Len(calls)] = Call("onComplete", "")
    /\ Len(SelectSeq(calls, LAMBDA c : c.cb = "onComplete")) = 1
    /\ handedError = NoError

C28_Witness ==
  /\ endedBy = "end_of_stream"
  /\ TrailingText(stream) = JRespC
  /\ CallsOfLine(TrailingText(stream)) = <<Call("onChunk", "c")>>
  /\ page.content = "ab"

\* The onComplete and onError calls among the calls made.
TerminalCalls(cs) == SelectSeq(cs, LAMBDA c : c.cb \in {"onComplete", "onError"})

\* C29: a streamAIResponse call that has ended has called exactly one of
\* onComplete and onError, once, and that call is the last one made; a call
\* that has not ended has called neither.  This holds whatever the
\* interleaving of chunks, timer and cancellation.
C29_OneTerminalCallAndItIsLast ==
  /\ Len(TerminalCalls(calls)) <= 1
  /\ (pc = "done") <=> (Len(TerminalCalls(calls)) = 1)
  /\ Len(TerminalCalls(calls)) = 1 =>
       calls[Len(calls)].cb \in {"onComplete", "onError"}
  /\ (pc = "done" /\ handedError = NoError) <=>
       (calls # <<>> /\ calls[Len(calls)].cb = "onComplete")

C29_Witness ==
  /\ pc = "done"
  /\ endedBy = "caller_abort"
  /\ endedIn = "reading"
  /\ Len(Fragments(calls)) >= 2
  /\ calls[Len(calls)].cb = "onError"
  /\ Len(TerminalCalls(calls)) = 1

\* C22: a stop by the user at any point after the stream was started,
\* before the first byte of the response included, ends the turn silently:
\* the step of handleStop writes nothing into the assistant message and
\* leaves the model status as it is.
C22_StopIsSilent ==
  [][(page.abortControllerRef /\ ~callerAborted /\ callerAborted' /\ appActive' = appActive) =>
       (/\ page'.content = page.content
        /\ page'.modelStatus = page.modelStatus
        /\ ~page'.isTyping)]_vars

\* C30: once the stream has ended, by completion or by an error of any
\* kind, the held controller reference is null.
C30_NoControllerAfterStreamEnds ==
  pc = "done" => ~page.abortControllerRef

\* C19: a resume from the background while a controller is held aborts the
\* stream's signal, clears the held reference and turns the typing flag
\* off; going to the background aborts nothing and leaves the turn and the
\* page as they are.
C19_ResumeAbortsHeldStream ==
  [][/\ (~appActive /\ appActive' /\ page.abortControllerRef) =>
          (callerAborted' /\ ~page'.abortControllerRef /\ ~page'.isTyping)
     /\ (appActive /\ ~appActive') =>
          (callerAborted' = callerAborted /\ pc' = pc /\ page' = page)]_vars

C19_Witness ==
  /\ appActive
  /\ retestPending
  /\ endedIn = "reading"
  /\ endedBy = "caller_abort"
  /\ callerAborted
  /\ ~page.abortControllerRef
  /\ ~page.isTyping
  /\ Len(Fragments(calls)) >= 1

\* ------------------------------------------------------------------------
\* Token estimation and truncateToFit (lib/tokenizer)
\* ------------------------------------------------------------------------

\* PER_MESSAGE_OVERHEAD
PER_MESSAGE_OVERHEAD == 4

\* Math.ceil(a / b) for naturals.
CeilDiv(a, b) == (a + b - 1) \div b

\* Mutant: the quotient is rounded down.
estimateTokensRoundsDown(text) ==
  IF text = "" THEN 0 ELSE ((2 * Len(text)) \div 7) + PER_MESSAGE_OVERHEAD

\* estimateTokens(text): 0 for an empty text, else
\* Math.ceil(text.length / CHARS_PER_TOKEN) + PER_MESSAGE_OVERHEAD, where
\* CHARS_PER_TOKEN is 3.5, so that the quotient is 2 * text.length / 7.
estimateTokens(text) ==
  IF text = "" THEN 0 ELSE CeilDiv(2 * Len(text), 7) + PER_MESSAGE_OVERHEAD

\* estimateMessagesTokens(messages)
RECURSIVE estimateMessagesTokens(_)
estimateMessagesTokens(messages) ==
  IF messages = <<>> THEN 0
  ELSE estimateTokens(Head(messages).content) + estimateMessagesTokens(Tail(messages))

ChatMessage(role, content) == [role |-> role, content |-> content]

TruncationResult(messages, truncated, originalCount, finalCount, estimatedTokens) ==
  [messages |-> messages, truncated |-> truncated, originalCount |-> originalCount,
   finalCount |-> finalCount, estimatedTokens |-> estimatedTokens]

\* Math.floor(contextLength * (1 - RESPONSE_RESERVE_RATIO)), the ratio being 0.25.
maxInputTokens(ctx) == (3 * ctx) \div 4

\* Mutant: the fill takes every earlier message whatever the budget.
FillMiddleIgnoresBudget(hist, i, budgetRemaining, middleMessages) ==
  SubSeq(hist, 1, i) \o middleMessages

\* Mutant: a message that does not fit is passed over and the walk goes on.
RECURSIVE FillMiddleSkipsUnfit(_, _, _, _)
FillMiddleSkipsUnfit(hist, i, budgetRemaining, middleMessages) ==
  IF i < 1 THEN middleMessages
  ELSE LET tokens == estimateTokens(hist[i].content)
       IN  IF tokens > budgetRemaining
           THEN FillMiddleSkipsUnfit(hist, i - 1, budgetRemaining, middleMessages)
           ELSE FillMiddleSkipsUnfit(hist, i - 1, budgetRemaining - tokens,
                                     <<hist[i]>> \o middleMessages)

\* The loop that fills from newest to oldest: i is the (1-based) index of
\* the next candidate, middleMessages what has been taken.
RECURSIVE FillMiddle(_, _, _, _)
FillMiddle(hist, i, budgetRemaining, middleMessages) ==
  IF i < 1 THEN middleMessages
  ELSE LET tokens == estimateTokens(hist[i].content)
       IN  IF tokens > budgetRemaining THEN middleMessages
           ELSE FillMiddle(hist, i - 1, budgetRemaining - tokens,
                           <<hist[i]>> \o middleMessages)

\* Mutant: with the budget exhausted only the system prompt is sent.
OverBudgetDropsLast(systemMessage, lastMessage, originalCount, tokens) ==
  TruncationResult(<<systemMessage>>, originalCount > 0, originalCount, 0, tokens)

\* The return taken when the system prompt and the last message leave no budget.
OverBudgetResult(systemMessage, lastMessage, originalCount, tokens) ==
  TruncationResult(<<systemMessage, lastMessage>>, originalCount > 1, originalCount, 1, tokens)

\* Mutant: the truncated flag compares with the whole history, the last
\* message included.
GreedyResultOffByOne(systemMessage, middleMessages, lastMessage, originalCount) ==
  LET finalMessages == <<systemMessage>> \o middleMessages \o <<lastMessage>>
  IN  TruncationResult(finalMessages, Len(middleMessages) < originalCount, originalCount,
                       Len(middleMessages) + 1, estimateMessagesTokens(finalMessages))

\* The return after the greedy fill.
GreedyResult(systemMessage, middleMessages, lastMessage, originalCount) ==
  LET finalMessages == <<systemMessage>> \o middleMessages \o <<lastMessage>>
  IN  TruncationResult(finalMessages, Len(middleMessages) < originalCount - 1,
                       originalCount, Len(middleMessages) + 1,
                       estimateMessagesTokens(finalMessages))

\* truncateToFit(systemPrompt, history, contextLength)
truncateToFit(prompt, hist, ctx) ==
  LET originalCount == Len(hist)
      systemMessage == ChatMessage("system", prompt)
      systemTokens == estimateTokens(prompt)
      lastMessage == hist[Len(hist)]
      lastMessageTokens == estimateTokens(lastMessage.content)
      budgetRemaining == maxInputTokens(ctx) - systemTokens - lastMessageTokens
  IN  IF originalCount = 0
      THEN TruncationResult(<<systemMessage>>, FALSE, 0, 0, estimateTokens(prompt))
      ELSE IF budgetRemaining <= 0
      THEN OverBudgetResult(systemMessage, lastMessage, originalCount,
                            systemTokens + lastMessageTokens)
      ELSE GreedyResult(systemMessage,
                        FillMiddle(hist, Len(hist) - 1, budgetRemaining, <<>>),
                        lastMessage, originalCount)

\* The inputs truncateToFit is called with.
MaxHistory == 3

Prompts ==
  {"", "Be kind", "Be brief.", "You are mine.ai, a private, local-first AI assistant."}

Contents ==
  {"", "Hi", "What is TLA+?", "Summarise the last answer in two sentences."}

ContextLengths == {16, 32, 48, 64, 4096}

Messages == {ChatMessage(role, content) : role \in {"user", "assistant"}, content \in Contents}

Histories == UNION {[1..n -> Messages] : n \in 0..MaxHistory}

\* The variables of a turn while no turn is under way.
TurnIdle ==
  /\ pc = "mounted"
  /\ online = TRUE
  /\ appActive = TRUE
  /\ callerAborted = FALSE
  /\ timerArmed = FALSE
  /\ timerFired = FALSE
  /\ fetchCount = 0
  /\ rfOutcome = rfNone
  /\ stream = ""
  /\ pos = 0
  /\ buffer = ""
  /\ pending = ""
  /\ calls = <<>>
  /\ handedError = NoError
  /\ page = PageState(FALSE, FALSE, "unknown", "", "", "", "")
  /\ thinkingEnabled = TRUE
  /\ retestPending = FALSE
  /\ endedBy = "none"
  /\ endedIn = "none"
  /\ whole = ""
  /\ fragments = <<>>

TruncInit ==
  /\ systemPrompt \in Prompts
  /\ history \in Histories
  /\ contextLength \in ContextLengths
  /\ truncation = NoTruncation
  /\ TurnIdle
  /\ LifeIdle
  /\ SendIdle
  /\ UrlIdle

\* handleSend calls truncateToFit.
Truncate ==
  /\ truncation = NoTruncation
  /\ truncation' = truncateToFit(systemPrompt, history, contextLength)
  /\ UNCHANGED <<turnVars, urlVars, lifeVars, sendVars, systemPrompt, history, contextLength>>

SpecTruncate == TruncInit /\ [][Truncate]_vars

Truncated == truncation # NoTruncation

\* The estimated cost of what truncateToFit always sends: the system prompt
\* and, when there is one, the most recent message.
MandatoryTokens ==
  estimateTokens(systemPrompt)
    + (IF history = <<>> THEN 0 ELSE estimateTokens(history[Len(history)].content))

\* C11 as stated: the result of truncateToFit fits the input budget, its
\* estimatedTokens is at most 75% of the context length, rounded down.
C11_ResultFitsBudget ==
  Truncated => truncation.estimatedTokens <= maxInputTokens(contextLength)

\* C11 as amended: the result fits the input budget exactly when the system
\* prompt and the most recent message (the system prompt alone for an empty
\* history) are together estimated at no more than the budget; otherwise
\* the result holds just those and its estimatedTokens is their cost.
C11_FitsWhenMandatoryFits ==
  Truncated =>
    /\ truncation.estimatedTokens <= maxInputTokens(contextLength)
         <=> MandatoryTokens <= maxInputTokens(contextLength)
    /\ MandatoryTokens > maxInputTokens(contextLength) =>
         /\ truncation.estimatedTokens = MandatoryTokens
         /\ Len(truncation.messages) = IF history = <<>> THEN 1 ELSE 2
    /\ truncation.estimatedTokens = estimateMessagesTokens(truncation.messages)

C11_Witness ==
  /\ Truncated
  /\ Len(history) = MaxHistory
  /\ truncation.truncated
  /\ truncation.finalCount = 2
  /\ truncation.estimatedTokens = maxInputTokens(contextLength)

\* C12: for a non-empty history, whatever the budget, the messages returned
\* by truncateToFit start with the system prompt (role system) and end with
\* the most recent message of the history.
C12_SystemFirstLastMessageLast ==
  (Truncated /\ history # <<>>) =>
    LET messages == truncation.messages
    IN  /\ Len(messages) >= 2
        /\ messages[1].role = "system"
        /\ messages[1].content = systemPrompt
        /\ messages[Len(messages)] = history[Len(history)]

C12_Witness ==
  /\ Truncated
  /\ Len(history) >= 2
  /\ MandatoryTokens > maxInputTokens(contextLength)
  /\ truncation.messages = <<ChatMessage("system", systemPrompt), history[Len(history)]>>

\* C13: finalCount is at most originalCount, originalCount is the length of
\* the history, and truncated is true exactly when finalCount is less than
\* originalCount, on each of the three return paths.
C13_TruncatedIffFewer ==
  Truncated =>
    /\ truncation.originalCount = Len(history)
    /\ truncation.finalCount <= truncation.originalCount
    /\ truncation.truncated <=> truncation.finalCount < truncation.originalCount

C13_Witness ==
  /\ Truncated
  /\ MandatoryTokens < maxInputTokens(contextLength)
  /\ truncation.originalCount = MaxHistory
  /\ truncation.finalCount = truncation.originalCount
  /\ ~truncation.truncated

\* The budget left once the system prompt and the last message are paid.
MiddleBudget == maxInputTokens(contextLength) - MandatoryTokens

\* The number of history messages kept besides the last one.
KeptMiddle == truncation.finalCount - 1

CeilOfLengthOver35(text) ==
  CHOOSE n \in 0..Len(text) : 7 * n >= 2 * Len(text) /\ 7 * (n - 1) < 2 * Len(text)

\* The sum over the messages of the estimate as C27 states it.
RECURSIVE StatedTokens(_)
StatedTokens(messages) ==
  IF messages = <<>> THEN 0
  ELSE CeilOfLengthOver35(Head(messages).content) + 4 + StatedTokens(Tail(messages))

\* The same sum with 0 for a message whose content is empty.
RECURSIVE StatedTokensOfNonEmpty(_)
StatedTokensOfNonEmpty(messages) ==
  IF messages = <<>> THEN 0
  ELSE (IF Head(messages).content = "" THEN 0
        ELSE CeilOfLengthOver35(Head(messages).content) + 4)
       + StatedTokensOfNonEmpty(Tail(messages))

\* C27 as stated: the estimate of every text is its length divided by 3.5,
\* rounded up, plus 4, so that the estimate of the messages sent is the sum
\* of that over them.
C27_EstimateIsCeilPlusOverhead ==
  Truncated => truncation.estimatedTokens = StatedTokens(truncation.messages)

\* C27 as amended: the estimate of every non-empty text is its length
\* divided by 3.5, rounded up, plus 4; the estimate of the empty text is 0.
C27_EstimateOfNonEmptyText ==
  Truncated => truncation.estimatedTokens = StatedTokensOfNonEmpty(truncation.messages)

C27_Witness ==
  /\ Truncated
  /\ systemPrompt = "Be kind"
  /\ Len(history) = 2
  /\ history[1].content = "What is TLA+?"
  /\ history[2].content = "Hi"
  /\ truncation.estimatedTokens = 6 + 8 + 5

\* ------------------------------------------------------------------------
\* The lifecycle registry (lib/lifecycle)
\* ------------------------------------------------------------------------

\* The most calls of onAppStateChange.
MaxRegistrations == 3

\* The callbacks subscribers register.  "plain" returns, "thrower" throws,
\* "detacher" calls the unsubscribe handle of the first registration of
\* "plain" that is still subscribed, and returns.
Callbacks == {"plain", "thrower", "detacher"}

Throws(cb) == cb = "thrower"

\* Hosts: no window (server rendering), or a window with or without the
\* Capacitor App plugin and with or without document.onfreeze.
Platforms ==
  {NoPlatform} \cup
  {[window |-> TRUE, capacitor |-> c, onfreeze |-> f] : c \in BOOLEAN, f \in BOOLEAN}

Range(seq) == {seq[k] : k \in DOMAIN seq}

\* The handle onAppStateChange returns: listeners.filter((cb) => cb !== callback).
Unsubscribe(ls, callback) == SelectSeq(ls, LAMBDA cb : cb # callback)

\* The registrations of this callback whose handle has not been called.
Live(regs, callback) ==
  {k \in DOMAIN regs : regs[k].callback = callback /\ ~regs[k].detached}

Subscribed(regs, callback) == Live(regs, callback) # {}

\* The handle of registration k is called.
CallHandle(st, k) ==
  [st EXCEPT !.listeners = Unsubscribe(@, st.registrations[k].callback),
             !.registrations[k].detached = TRUE]

Min(set) == CHOOSE k \in set : \A j \in set : k <= j

\* What the body of a callback does to the registry.
CallbackEffect(cb, st) ==
  IF cb = "detacher" /\ Subscribed(st.registrations, "plain")
  THEN CallHandle(st, Min(Live(st.registrations, "plain")))
  ELSE st

\* One invocation cb(isActive) as the log keeps it.
Invocation(cb, st) ==
  [callback |-> cb, threw |-> Throws(cb), subscribed |-> Subscribed(st.registrations, cb)]

\* Mutant: one try around the whole loop, the first throw ends the dispatch.
RECURSIVE RunCallbacksStopsAtThrow(_, _, _, _)
RunCallbacksStopsAtThrow(snapshot, i, isActive, st) ==
  IF i > Len(snapshot) THEN st
  ELSE LET cb == snapshot[i]
           after == [CallbackEffect(cb, st) EXCEPT
                       !.invoked = Append(st.invoked, Invocation(cb, st))]
       IN  IF Throws(cb) THEN after
           ELSE RunCallbacksStopsAtThrow(snapshot, i + 1, isActive, after)

\* for (const cb of listeners) { try { cb(isActive) } catch { ... } }: the
\* loop runs over the array that listeners named when it began (a handle
\* called meanwhile puts a new array in listeners), from its element i on.
RECURSIVE RunCallbacks(_, _, _, _)
RunCallbacks(snapshot, i, isActive, st) ==
  IF i > Len(snapshot) THEN st
  ELSE LET cb == snapshot[i]
           after == [CallbackEffect(cb, st) EXCEPT
                       !.invoked = Append(st.invoked, Invocation(cb, st))]
       IN  RunCallbacks(snapshot, i + 1, isActive, after)

\* An event handler of lifecycle.ts: lastState is assigned, then, if fire,
\* the callbacks are run.
Dispatch(event, isActive, fire) ==
  LET st0 == [listeners |-> listeners, registrations |-> registrations, invoked |-> <<>>]
      st == IF fire THEN RunCallbacks(listeners, 1, isActive, st0) ELSE st0
  IN  /\ lastState' = isActive
      /\ listeners' = st.listeners
      /\ registrations' = st.registrations
      /\ lastSignal' =
           [event |-> event, isActive |-> isActive, wasActive |-> lastState,
            registered |-> listeners, invoked |-> st.invoked]

\* Mutant: every registration sets the sources up again.
ensureInitializedEveryTime(init, hasWindow) == hasWindow

\* ensureInitialized: whether it goes on to set the sources up.
ensureInitialized(init, hasWindow) == ~(init \/ ~hasWindow)

\* setupBrowserFallback: the events it adds a handler for.
setupBrowserFallback(onfreeze) ==
  <<"visibilitychange">> \o (IF onfreeze THEN <<"freeze", "resume">> ELSE <<>>)

\* tryCapacitorListener, with setupBrowserFallback when the import fails.
tryCapacitorListener(host) ==
  IF host.capacitor THEN <<"appStateChange">> ELSE setupBrowserFallback(host.onfreeze)

LifeInit ==
  /\ platform \in Platforms
  /\ docState \in (IF platform.window THEN {"visible", "hidden"} ELSE {"visible"})
  /\ listeners = <<>>
  /\ initialized = FALSE
  /\ lastState = TRUE
  /\ importsPending = 0
  /\ attached = <<>>
  /\ registrations = <<>>
  /\ lastSignal = NoSignal
  /\ TurnIdle
  /\ TruncIdle
  /\ SendIdle
  /\ UrlIdle

\* onAppStateChange(callback)
Register(cb) ==
  /\ Len(registrations) < MaxRegistrations
  /\ listeners' = Append(listeners, cb)
  /\ registrations' = Append(registrations, [callback |-> cb, detached |-> FALSE])
  /\ IF ensureInitialized(initialized, platform.window)
     THEN initialized' = TRUE /\ importsPending' = importsPending + 1
     ELSE UNCHANGED <<initialized, importsPending>>
  /\ UNCHANGED <<turnVars, urlVars, truncVars, sendVars, platform, docState, lastState, attached,
                 lastSignal>>

\* A subscriber calls the handle it was given.
CallUnsubscribe(k) ==
  /\ k \in DOMAIN registrations
  /\ ~registrations[k].detached
  /\ LET st == CallHandle([listeners |-> listeners, registrations |-> registrations], k)
     IN  listeners' = st.listeners /\ registrations' = st.registrations
  /\ UNCHANGED <<turnVars, urlVars, truncVars, sendVars, platform, docState, initialized, lastState,
                 importsPending, attached, lastSignal>>

\* The dynamic import of @capacitor/app settles and the handlers are added.
ImportSettled ==
  /\ importsPending > 0
  /\ importsPending' = importsPending - 1
  /\ attached' = attached \o tryCapacitorListener(platform)
  /\ UNCHANGED <<turnVars, urlVars, truncVars, sendVars, platform, docState, listeners, initialized,
                 lastState, registrations, lastSignal>>

\* The native appStateChange event.
AppStateChange(isActive) ==
  /\ "appStateChange" \in Range(attached)
  /\ Dispatch("appStateChange", isActive, lastState # isActive)
  /\ UNCHANGED <<turnVars, urlVars, truncVars, sendVars, platform, docState, initialized,
                 importsPending, attached>>

\* The page becomes visible or hidden: the visibilitychange event.
VisibilityChange ==
  /\ platform.window
  /\ docState \in {"visible", "hidden"}
  /\ docState' = IF docState = "visible" THEN "hidden" ELSE "visible"
  /\ IF "visibilitychange" \in Range(attached)
     THEN Dispatch("visibilitychange", docState' = "visible",
                   lastState # (docState' = "visible"))
     ELSE UNCHANGED <<lastState, listeners, registrations, lastSignal>>
  /\ UNCHANGED <<turnVars, urlVars, truncVars, sendVars, platform, initialized, importsPending,
                 attached>>

\* The browser freezes the hidden page: the freeze event.
Freeze ==
  /\ platform.onfreeze
  /\ docState = "hidden"
  /\ docState' = "frozen"
  /\ IF "freeze" \in Range(attached)
     THEN Dispatch("freeze", FALSE, TRUE)
     ELSE UNCHANGED <<lastState, listeners, registrations, lastSignal>>
  /\ UNCHANGED <<turnVars, urlVars, truncVars, sendVars, platform, initialized, importsPending,
                 attached>>

\* The browser resumes the frozen page: the resume event.
Resume ==
  /\ platform.onfreeze
  /\ docState = "frozen"
  /\ docState' = "hidden"
  /\ IF "resume" \in Range(attached)
     THEN Dispatch("resume", TRUE, TRUE)
     ELSE UNCHANGED <<lastState, listeners, registrations, lastSignal>>
  /\ UNCHANGED <<turnVars, urlVars, truncVars, sendVars, platform, initialized, importsPending,
                 attached>>

LifeNext ==
  \/ \E cb \in Callbacks : Register(cb)
  \/ \E k \in 1..MaxRegistrations : CallUnsubscribe(k)
  \/ ImportSettled
  \/ \E isActive \in BOOLEAN : AppStateChange(isActive)
  \/ VisibilityChange
  \/ Freeze
  \/ Resume

SpecLifecycle == LifeInit /\ [][LifeNext]_vars

\* ------------------------------------------------------------------------
\* Properties of the lifecycle registry
\* ------------------------------------------------------------------------

\* C14: whatever the event (appStateChange, visibilitychange, freeze,
\* resume), callbacks are invoked only when the value of the event differs
\* from the active state recorded before it.
C14_InvokedOnlyOnChange ==
  lastSignal.invoked # <<>> => lastSignal.isActive # lastSignal.wasActive

\* How often the callback occurs in the listeners array.
Occurrences(ls, callback) == Len(SelectSeq(ls, LAMBDA cb : cb = callback))

\* C15: calling the handle of one registration detaches that registration
\* only: the listeners array holds a callback once for each registration of
\* it whose own handle has not been called.
C15_OtherRegistrationsKept ==
  \A c \in Callbacks : Occurrences(listeners, c) = Cardinality(Live(registrations, c))

\* C16: a callback is invoked only while a registration of it is still
\* subscribed, also within the dispatch during which a handle was called,
\* and the listeners array holds no callback without such a registration.
C16_NeverInvokedAfterUnsubscribe ==
  /\ \A k \in DOMAIN lastSignal.invoked : lastSignal.invoked[k].subscribed
  /\ \A c \in Range(listeners) : Subscribed(registrations, c)

\* The source an event belongs to.
SourceOf(event) ==
  CASE event = "appStateChange" -> "native app state"
    [] event = "visibilitychange" -> "page visibility"
    [] OTHER -> "freeze/resume"

AttachedSources == {SourceOf(event) : event \in Range(attached)}

\* C17 as stated: once the registry has set itself up, exactly one
\* underlying source is attached, and never more than one.
C17_ExactlyOneSource ==
  /\ Cardinality(AttachedSources) <= 1
  /\ (initialized /\ importsPending = 0) => Cardinality(AttachedSources) = 1

\* C17 as amended: the registry sets itself up on the first registration
\* made where there is a window and never again; what it attaches, once, is
\* the native appStateChange handler alone or, without the native plugin,
\* the visibilitychange handler together with the freeze and resume
\* handlers where the document has onfreeze.
C17_AttachedOnceOnFirstRegistration ==
  /\ initialized <=> (platform.window /\ registrations # <<>>)
  /\ importsPending = (IF initialized /\ attached = <<>> THEN 1 ELSE 0)
  /\ attached # <<>> =>
       /\ platform.capacitor => attached = <<"appStateChange">>
       /\ (~platform.capacitor /\ ~platform.onfreeze) => attached = <<"visibilitychange">>
       /\ (~platform.capacitor /\ platform.onfreeze) =>
            attached = <<"visibilitychange", "freeze", "resume">>

C17_Witness ==
  /\ attached = <<"visibilitychange", "freeze", "resume">>
  /\ Len(registrations) = MaxRegistrations
  /\ \E k \in DOMAIN registrations : registrations[k].detached
  /\ lastSignal.event = "resume"

\* C18: in every dispatch each callback that was registered when it began
\* is invoked, in order, whether or not an earlier one threw, and the
\* recorded active state is that of the last event handled.
C18_ThrowDoesNotStopDispatch ==
  /\ (lastSignal.event \in {"freeze", "resume"} \/ lastSignal.isActive # lastSignal.wasActive)
       => [k \in DOMAIN lastSignal.invoked |-> lastSignal.invoked[k].callback]
            = lastSignal.registered
  /\ lastSignal # NoSignal => lastState = lastSignal.isActive

C18_Witness ==
  /\ Len(lastSignal.invoked) = MaxRegistrations
  /\ lastSignal.invoked[1].threw
  /\ lastSignal.invoked[2].callback = "plain"
  /\ lastState = FALSE

\* ------------------------------------------------------------------------
\* Invocations of handleSend side by side (page.tsx)
\* ------------------------------------------------------------------------

\* An invocation of handleSend is "idle" (not made yet), "returned" (it
\* found isTyping set and returned), "storage" (past the guards, awaiting the
\* thread, the settings, the character, the file and addMessage),
\* "prepared" (past setIsTyping(true), awaiting the assistant message, the
\* profile and the history), "streaming" (its controller is held and
\* streamAIResponse is in flight) or "finished".  The guard reads the
\* isTyping state as it is when the invocation is made.
SendInit ==
  /\ SendIdle
  /\ TurnIdle
  /\ TruncIdle
  /\ LifeIdle
  /\ UrlIdle

\* handleSend is invoked with a non-empty message: the guards.
SendInvoke(i) ==
  /\ sendPc[i] = "idle"
  /\ \A j \in 1..(i - 1) : sendPc[j] # "idle"
  /\ sendPc' = [sendPc EXCEPT ![i] = IF isTyping THEN "returned" ELSE "storage"]
  /\ UNCHANGED <<turnVars, urlVars, truncVars, lifeVars, isTyping, abortControllerRef>>

\* addMessage has resolved: setInputValue(""), setIsTyping(true).
SendStored(i) ==
  /\ sendPc[i] = "storage"
  /\ sendPc' = [sendPc EXCEPT ![i] = "prepared"]
  /\ isTyping' = TRUE
  /\ UNCHANGED <<turnVars, urlVars, truncVars, lifeVars, abortControllerRef>>

\* The history is read and truncated, the controller created and put in
\* abortControllerRef, streamAIResponse called.
SendStart(i) ==
  /\ sendPc[i] = "prepared"
  /\ sendPc' = [sendPc EXCEPT ![i] = "streaming"]
  /\ abortControllerRef' = i
  /\ UNCHANGED <<turnVars, urlVars, truncVars, lifeVars, isTyping>>

\* The stream of invocation i ends with onComplete.
SendComplete(i) ==
  /\ sendPc[i] = "streaming"
  /\ sendPc' = [sendPc EXCEPT ![i] = "finished"]
  /\ isTyping' = FALSE
  /\ abortControllerRef' = 0
  /\ UNCHANGED <<turnVars, urlVars, truncVars, lifeVars>>

\* The stream of invocation i ends with onError for an error that is no
\* AbortError: the typing flag is cleared, the reference is left.
SendError(i) ==
  /\ sendPc[i] = "streaming"
  /\ sendPc' = [sendPc EXCEPT ![i] = "finished"]
  /\ isTyping' = FALSE
  /\ UNCHANGED <<turnVars, urlVars, truncVars, lifeVars, abortControllerRef>>

\* handleStop: the held controller is aborted, which ends the stream that
\* carries its signal, and dropped.
SendStop ==
  /\ abortControllerRef # 0
  /\ sendPc' = IF sendPc[abortControllerRef] = "streaming"
               THEN [sendPc EXCEPT ![abortControllerRef] = "finished"]
               ELSE sendPc
  /\ abortControllerRef' = 0
  /\ isTyping' = FALSE
  /\ UNCHANGED <<turnVars, urlVars, truncVars, lifeVars>>

SendNext ==
  \/ \E i \in 1..MaxSends : SendInvoke(i)
  \/ \E i \in 1..MaxSends : SendStored(i)
  \/ \E i \in 1..MaxSends : SendStart(i)
  \/ \E i \in 1..MaxSends : SendComplete(i)
  \/ \E i \in 1..MaxSends : SendError(i)
  \/ SendStop

SpecTurns == SendInit /\ [][SendNext]_vars

\* The invocations whose stream is in flight.
InFlight == {i \in 1..MaxSends : sendPc[i] = "streaming"}

\* C20: at most one stream is in flight at any time, and an invocation of
\* handleSend made before an earlier one has finished its turn starts none.
C20_AtMostOneStream ==
  Cardinality(InFlight) <= 1

\* ------------------------------------------------------------------------
\* The endpoint resolver: buildChatCompletionUrl and getBaseUrl (lib/api)
\* ------------------------------------------------------------------------

UpperCase == "ABCDEFGHIJKLMNOPQRSTUVWXYZ"
LowerCase == "abcdefghijklmnopqrstuvwxyz"

LowerChar(c) ==
  LET i == IndexOf(UpperCase, c) IN IF i = 0 THEN c ELSE CharAt(LowerCase, i)

RECURSIVE ToLower(_)
ToLower(s) == IF s = "" THEN "" ELSE LowerChar(CharAt(s, 1)) \o ToLower(Slice(s, 2))

\* /<path>$/i.test(s) for a path without special characters.
MatchesAtEnd(s, path) ==
  Len(s) >= Len(path) /\ ToLower(SubSeq(s, Len(s) - Len(path) + 1, Len(s))) = ToLower(path)

\* s.replace(/\/+$/, '')
RECURSIVE StripTrailingSlashes(_)
StripTrailingSlashes(s) ==
  IF EndsWith(s, "/") THEN StripTrailingSlashes(SubSeq(s, 1, Len(s) - 1)) ELSE s

ChatCompletionsPath == "/chat/completions"
NativeChatPath == "/api/chat"
OpenAiSuffix == "/v1/chat/completions"

\* Mutant: the suffix is appended whatever the URL ends with.
buildChatCompletionUrlAlwaysAppends(url) == StripTrailingSlashes(url) \o OpenAiSuffix

\* Mutant: the tests are made on the cleaned URL but the URL is used as entered.
buildChatCompletionUrlKeepsSlashes(url) ==
  LET cleanUrl == StripTrailingSlashes(url)
  IN  IF MatchesAtEnd(cleanUrl, ChatCompletionsPath) THEN url
      ELSE IF EndsWith(cleanUrl, NativeChatPath) THEN url
      ELSE url \o OpenAiSuffix

buildChatCompletionUrl(url) ==
  LET cleanUrl == StripTrailingSlashes(url)
  IN  IF MatchesAtEnd(cleanUrl, ChatCompletionsPath) THEN cleanUrl
      ELSE IF EndsWith(cleanUrl, NativeChatPath) THEN cleanUrl
      ELSE cleanUrl \o OpenAiSuffix

\* The alternatives of the pattern getBaseUrl removes at the end.
KnownApiPaths == {"/v1/chat/completions", "/api/chat", "/v1/models", "/api/tags"}

getBaseUrl(url) ==
  LET cleanUrl == StripTrailingSlashes(url)
      hits == {path \in KnownApiPaths : MatchesAtEnd(cleanUrl, path)}
  IN  IF hits = {} THEN cleanUrl
      ELSE SubSeq(cleanUrl, 1, Len(cleanUrl) - Len(CHOOSE path \in hits : TRUE))

\* The API URLs a user enters: a server address, up to two paths after it
\* and trailing slashes.
Hosts == {"http://localhost:11434", ""}

UrlPaths ==
  {"", "/", "/v1", "/v1/chat/completions", "/V1/Chat/Completions", "/chat/completions",
   "/api/chat", "/API/CHAT", "/api/tags", "/v1/models"}

ApiUrls ==
  {host \o first \o second \o slashes :
     host \in Hosts, first \in UrlPaths, second \in UrlPaths, slashes \in {"", "/", "//"}}

UrlInit ==
  /\ urlPc = "input"
  /\ apiUrl \in ApiUrls
  /\ chatUrl = ""
  /\ chatUrlAgain = ""
  /\ serverRoot = ""
  /\ TurnIdle
  /\ TruncIdle
  /\ LifeIdle
  /\ SendIdle

\* streamAIResponse / testAPIConnection resolve the chat URL.
ResolveChat ==
  /\ urlPc = "input"
  /\ urlPc' = "resolved"
  /\ chatUrl' = buildChatCompletionUrl(apiUrl)
  /\ UNCHANGED <<turnVars, truncVars, lifeVars, sendVars, apiUrl, chatUrlAgain, serverRoot>>

\* The resolved URL is resolved once more.
ResolveAgain ==
  /\ urlPc = "resolved"
  /\ urlPc' = "again"
  /\ chatUrlAgain' = buildChatCompletionUrl(chatUrl)
  /\ UNCHANGED <<turnVars, truncVars, lifeVars, sendVars, apiUrl, chatUrl, serverRoot>>

\* fetchModels recovers the server root from the resolved URL.
RecoverRoot ==
  /\ urlPc = "again"
  /\ urlPc' = "root"
  /\ serverRoot' = getBaseUrl(chatUrl)
  /\ UNCHANGED <<turnVars, truncVars, lifeVars, sendVars, apiUrl, chatUrl, chatUrlAgain>>

UrlNext == ResolveChat \/ ResolveAgain \/ RecoverRoot

SpecUrl == UrlInit /\ [][UrlNext]_vars

\* C21: resolving the resolved chat URL again gives the same string.
C21_ResolveIdempotent ==
  urlPc \in {"again", "root"} => chatUrlAgain = chatUrl

C21_Witness ==
  /\ urlPc = "again"
  /\ apiUrl = "http://localhost:11434/API/CHAT//"
  /\ chatUrl = "http://localhost:11434/API/CHAT/v1/chat/completions"
  /\ chatUrlAgain = chatUrl

\* The text ends with a chat-completions path (in any letter case) or with
\* the native chat path.
EndsWithChatPath(text) ==
  \/ \E first \in 1..Len(text) : ToLower(SubSeq(text, first, Len(text))) = "/chat/completions"
  \/ EndsWith(text, "/api/chat")

\* C26 as stated: an input that ends with a chat-completions path or with
\* /api/chat is returned unchanged, every other input is returned with its
\* trailing slashes stripped and /v1/chat/completions appended.
C26_UnchangedOrSuffixAppended ==
  urlPc # "input" =>
    chatUrl = IF EndsWithChatPath(apiUrl) THEN apiUrl
              ELSE StripTrailingSlashes(apiUrl) \o "/v1/chat/completions"

\* C26 as amended: the result never ends with a slash; it is the input
\* without its trailing slashes when that ends with a chat-completions path
\* (any letter case) or with /api/chat, and the input without its trailing
\* slashes followed by /v1/chat/completions otherwise;
\* http://localhost:11434 gives http://localhost:11434/v1/chat/completions.
C26_StrippedThenUnchangedOrAppended ==
  urlPc # "input" =>
    /\ ~EndsWith(chatUrl, "/")
    /\ chatUrl = IF EndsWithChatPath(StripTrailingSlashes(apiUrl))
                 THEN StripTrailingSlashes(apiUrl)
                 ELSE StripTrailingSlashes(apiUrl) \o "/v1/chat/completions"
    /\ EndsWithChatPath(apiUrl) => chatUrl = apiUrl
    /\ apiUrl = "http://localhost:11434" =>
         chatUrl = "http://localhost:11434/v1/chat/completions"

C26_Witness ==
  /\ urlPc = "resolved"
  /\ apiUrl = "http://localhost:11434/v1/chat/completions/"
  /\ chatUrl = "http://localhost:11434/v1/chat/completions"

\* C25: the root recovered from the resolved chat URL ends with no
\* chat-completions path, native chat path or model-listing path.
C25_RootHasNoApiPath ==
  urlPc = "root" =>
    /\ ~EndsWithChatPath(serverRoot)
    /\ \A first \in 1..Len(serverRoot) :
         ToLower(SubSeq(serverRoot, first, Len(serverRoot)))
           \notin {"/api/chat", "/v1/models", "/api/tags"}
====
